---- MODULE Spec2Model ----
(***************************************************************************)
(* A model of the rule-based logical query optimizer: the logical tree     *)
(* (logical_tree.py), the canonical tree the front end builds              *)
(* (parser_front.py), the seven rewrite passes and their driver            *)
(* (rules.py) and the trace read-out of main.run (main.py).                *)
(*                                                                         *)
(* Python objects are modelled as cells of a heap: a node is heap[id],     *)
(* its children are ids. A pass that mutates a node in place rewrites the  *)
(* cell; a pass that constructs a Node allocates a new cell. A helper      *)
(* returns [h |-> the heap after it, r |-> the id it returns].             *)
(*                                                                         *)
(* Text (a predicate, an aggregate expression) is a sequence of tokens,    *)
(* each [k, q, n]: a column reference (alias q, "" when bare, name n),     *)
(* a symbol, a literal, a keyword or an identifier. An attribute string    *)
(* "a.x" or "x" is the column token itself.                                *)
(***************************************************************************)
EXTENDS Naturals, Sequences, FiniteSets, TLC

VARIABLES heap, root, steps, pc, shown, asBuilt

vars == <<heap, root, steps, pc, shown, asBuilt>>

\* ------------------------------------------------------------------ bounds
MaxTables == 2
MaxWhere == 2
MaxFactors == 3
MaxCalls == 2

\* ------------------------------------------------------------------ tokens
Col(q, n) == [k |-> "col", q |-> q, n |-> n]
Sym(s) == [k |-> "sym", q |-> "", n |-> s]
Lit(s) == [k |-> "lit", q |-> "", n |-> s]
Kw(s) == [k |-> "kw", q |-> "", n |-> s]
Ident(s) == [k |-> "id", q |-> "", n |-> s]
Star == [k |-> "star", q |-> "", n |-> "*"]
\* Python's None, as a text distinct from every token sequence of the model
None == <<[k |-> "none", q |-> "", n |-> ""]>>

\* "." in a
HasDot(a) == a.k = "col" /\ a.q # ""
\* a.split(".")[0]
SplitHead(a) == IF HasDot(a) THEN a.q ELSE a.n

\* the order of Python's str comparison on the names of the model
NameOrder == <<"*", "a", "aid", "b", "c", "d", "e", "id", "w", "x", "y", "z">>
Rank(s) == CHOOSE i \in 1..Len(NameOrder) : NameOrder[i] = s
\* "a.x" < "b.y" as strings: the alias first, then the name; a bare name is the name alone
StrLess(a, b) ==
  LET ha == SplitHead(a)
      hb == SplitHead(b)
  IN IF ha # hb THEN Rank(ha) < Rank(hb)
     ELSE IF HasDot(a) /\ HasDot(b) THEN Rank(a.n) < Rank(b.n)
     ELSE ~HasDot(a) /\ HasDot(b)

RECURSIVE SetToSortedSeq(_)
SetToSortedSeq(S) ==
  IF S = {} THEN <<>>
  ELSE LET m == CHOOSE a \in S : \A b \in S \ {a} : StrLess(a, b)
       IN <<m>> \o SetToSortedSeq(S \ {m})
\* sorted(attrs) on a list of distinct attribute strings
sorted(S) == SetToSortedSeq(S)

Range(s) == {s[i] : i \in 1..Len(s)}

\* ------------------------------------------------------------------ logical_tree.py
Node(op, children, props) == [op |-> op, children |-> children, props |-> props]

Alloc(h, node) == [h |-> Append(h, node), r |-> Len(h) + 1]

leaf_scan(relation, alias) ==
  Node("Scan", <<>>, [relation |-> relation, alias |-> alias])

join(kind, on, left, right) ==
  Node(kind, <<left, right>>,
       [on |-> on, join_keys_left |-> <<>>, join_keys_right |-> <<>>])

\* the tree under id as a value: what render prints (op, props, children in preorder)
RECURSIVE Tree(_, _)
Tree(h, id) ==
  [op |-> h[id].op, props |-> h[id].props,
   children |-> [i \in 1..Len(h[id].children) |-> Tree(h, h[id].children[i])]]
render(h, id) == Tree(h, id)

\* the ids of the tree under id, in preorder
RECURSIVE Preorder(_, _)
RECURSIVE PreorderAll(_, _, _)
PreorderAll(h, ids, i) ==
  IF i > Len(ids) THEN <<>> ELSE Preorder(h, ids[i]) \o PreorderAll(h, ids, i + 1)
Preorder(h, id) == <<id>> \o PreorderAll(h, h[id].children, 1)
Nodes(h, id) == Range(Preorder(h, id))

\* ------------------------------------------------------------------ parser_front.py
\* _col_attrs: the columns of an expression, in order, without repeats
RECURSIVE col_attrs(_)
col_attrs(text) ==
  IF text = <<>> THEN <<>>
  ELSE LET init == col_attrs(SubSeq(text, 1, Len(text) - 1))
           t == text[Len(text)]
       IN IF t.k = "col" /\ t \notin Range(init) THEN Append(init, t) ELSE init

\* the FROM loop: a left-deep chain of Cross over the scans
RECURSIVE BuildSources(_, _, _, _)
BuildSources(h, tables, i, cur) ==
  IF i > Len(tables) THEN [h |-> h, r |-> cur]
  ELSE LET s == Alloc(h, leaf_scan(tables[i].relation, tables[i].alias))
           c == Alloc(s.h, join("Cross", None, cur, s.r))
       IN BuildSources(c.h, tables, i + 1, c.r)

\* for pred, attrs in ...: root = Node("Select", children=[root], ...)
RECURSIVE BuildSelects(_, _, _, _)
BuildSelects(h, preds, i, cur) ==
  IF i > Len(preds) THEN [h |-> h, r |-> cur]
  ELSE LET s == Alloc(h, Node("Select", <<cur>>,
                              [pred |-> preds[i].pred, pred_attrs |-> preds[i].attrs]))
       IN BuildSelects(s.h, preds, i + 1, s.r)

\* q: the clauses sqlglot parsed:
\*   tables (alias/relation), ons (the ON texts, in join order), where (the conjuncts),
\*   select_attrs, aggs, group_by, having (None when absent), order_cols
parse_sql_to_tree(q) ==
  LET base == Alloc(<<>>, leaf_scan(q.tables[1].relation, q.tables[1].alias))
      src == BuildSources(base.h, q.tables, 2, base.r)
      where_preds == [i \in 1..Len(q.where) |->
                        [pred |-> q.where[i], attrs |-> col_attrs(q.where[i])]]
      join_preds == [i \in 1..Len(q.ons) |-> [pred |-> q.ons[i], attrs |-> <<>>]]
      sel == BuildSelects(src.h, where_preds \o join_preds, 1, src.r)
      grouped == q.group_by # <<>> \/ q.aggs # <<>>
      grp == IF grouped
             THEN Alloc(sel.h, Node("Group", <<sel.r>>,
                                    [group_by |-> q.group_by, aggs |-> q.aggs]))
             ELSE sel
      hav == IF grouped /\ q.having # None
             THEN Alloc(grp.h, Node("Having", <<grp.r>>,
                                    [pred |-> q.having, pred_attrs |-> col_attrs(q.having)]))
             ELSE grp
      prj == Alloc(hav.h, Node("Project", <<hav.r>>, [attrs |-> q.select_attrs]))
  IN IF q.order_cols # <<>>
     THEN Alloc(prj.h, Node("Order", <<prj.r>>, [order_by |-> q.order_cols]))
     ELSE prj

\* ------------------------------------------------------------------ rules.py
\* aliases / _aliases: the Scan aliases under a node
RECURSIVE aliases(_, _)
aliases(h, id) ==
  IF h[id].op = "Scan" THEN {h[id].props.alias}
  ELSE UNION {aliases(h, h[id].children[i]) : i \in 1..Len(h[id].children)}

\* " AND " in pred
HasAnd(pred) == \E i \in 2..(Len(pred) - 1) : pred[i] = Kw("AND")

\* re.split(r"\s+AND\s+", pred)
RECURSIVE SplitAnd(_)
SplitAnd(pred) ==
  IF ~HasAnd(pred) THEN <<pred>>
  ELSE LET i == CHOOSE j \in 2..(Len(pred) - 1) :
                  pred[j] = Kw("AND") /\ \A m \in 2..(j - 1) : pred[m] # Kw("AND")
       IN <<SubSeq(pred, 1, i - 1)>> \o SplitAnd(SubSeq(pred, i + 1, Len(pred)))

\* for p in parts[::-1]: cur = Node("Select", children=[cur], ...)
RECURSIVE WrapParts(_, _, _, _, _)
WrapParts(h, parts, i, cur, pred_attrs) ==
  IF i < 1 THEN [h |-> h, r |-> cur]
  ELSE LET s == Alloc(h, Node("Select", <<cur>>,
                              [pred |-> parts[i], pred_attrs |-> pred_attrs]))
       IN WrapParts(s.h, parts, i - 1, s.r, pred_attrs)

RECURSIVE breakup_helper(_, _)
\* [helper(c) for c in node.children], the heap threaded left to right
RECURSIVE breakup_children(_, _, _)
breakup_children(h, ids, i) ==
  IF i > Len(ids) THEN [h |-> h, r |-> <<>>]
  ELSE LET a == breakup_helper(h, ids[i])
           b == breakup_children(a.h, ids, i + 1)
       IN [h |-> b.h, r |-> <<a.r>> \o b.r]
breakup_helper(h, id) ==
  LET node == h[id] IN
  IF node.op = "Select" /\ HasAnd(node.props.pred)
  THEN LET parts == SplitAnd(node.props.pred)
       IN WrapParts(h, parts, Len(parts), node.children[1], node.props.pred_attrs)
  ELSE LET m == breakup_children(h, node.children, 1)
       IN [h |-> [m.h EXCEPT ![id].children = m.r], r |-> id]

breakup_conjuncts(h, n) == breakup_helper(h, n)

\* involved = {a.split(".")[0] for a in pred_attrs if "." in a}
Involved(node) == {a.q : a \in {b \in Range(node.props.pred_attrs) : HasDot(b)}}

RECURSIVE pushdown_helper(_, _)
\* [helper(c) for c in node.children], the heap threaded left to right
RECURSIVE pushdown_children(_, _, _)
pushdown_children(h, ids, i) ==
  IF i > Len(ids) THEN [h |-> h, r |-> <<>>]
  ELSE LET a == pushdown_helper(h, ids[i])
           b == pushdown_children(a.h, ids, i + 1)
       IN [h |-> b.h, r |-> <<a.r>> \o b.r]
pushdown_helper(h, id) ==
  IF h[id].op = "Select"
  THEN LET c == pushdown_helper(h, h[id].children[1])
           child == c.r
           h1 == [c.h EXCEPT ![id].children = <<child>>]
           involved == Involved(h1[id])
           left == h1[child].children[1]
           right == h1[child].children[2]
       IN IF involved = {} THEN [h |-> h1, r |-> id]
          ELSE IF h1[child].op \in {"Cross", "Join"}
          THEN IF involved \subseteq aliases(h1, left)
               THEN LET p == pushdown_helper([h1 EXCEPT ![id].children = <<left>>], id)
                    IN [h |-> [p.h EXCEPT ![child].children[1] = p.r], r |-> child]
               ELSE IF involved \subseteq aliases(h1, right)
               THEN LET p == pushdown_helper([h1 EXCEPT ![id].children = <<right>>], id)
                    IN [h |-> [p.h EXCEPT ![child].children[2] = p.r], r |-> child]
               ELSE [h |-> h1, r |-> id]
          ELSE [h |-> h1, r |-> id]
  ELSE LET m == pushdown_children(h, h[id].children, 1)
       IN [h |-> [m.h EXCEPT ![id].children = m.r], r |-> id]

selection_pushdown(h, n) == pushdown_helper(h, n)

\* re.match(r"\s*([\w]+)\.([\w]+)\s*=\s*([\w]+)\.([\w]+)\s*$", pred)
JoinizeMatch(pred) ==
  /\ Len(pred) = 3
  /\ HasDot(pred[1])
  /\ pred[2] = Sym("=")
  /\ HasDot(pred[3])

RECURSIVE joinize_helper(_, _)
\* [helper(c) for c in node.children], the heap threaded left to right
RECURSIVE joinize_children(_, _, _)
joinize_children(h, ids, i) ==
  IF i > Len(ids) THEN [h |-> h, r |-> <<>>]
  ELSE LET a == joinize_helper(h, ids[i])
           b == joinize_children(a.h, ids, i + 1)
       IN [h |-> b.h, r |-> <<a.r>> \o b.r]
joinize_helper(h, id) ==
  LET m == joinize_children(h, h[id].children, 1)
      h1 == [m.h EXCEPT ![id].children = m.r]
      node == h1[id]
      pred == node.props.pred
      cross == h1[node.children[1]]
  IN IF node.op = "Select" /\ cross.op = "Cross" /\ JoinizeMatch(pred)
     THEN Alloc(h1, Node("Join", <<cross.children[1], cross.children[2]>>,
                         [on |-> pred,
                          join_keys_left |-> <<Col(pred[1].q, pred[1].n)>>,
                          join_keys_right |-> <<Col(pred[3].q, pred[3].n)>>]))
     ELSE [h |-> h1, r |-> id]

joinize(h, n) == joinize_helper(h, n)

\* for tok in v.replace(...).split(): if "." in tok: agg_attrs.add(tok)
AggAttrs(aggs) ==
  UNION {{t \in Range(aggs[i].expr) : HasDot(t)} : i \in 1..Len(aggs)}

\* {a for a in needed if a.split(".")[0] in _aliases(side)}
OnSide(S, al) == {a \in S : SplitHead(a) \in al}

RECURSIVE projection_helper(_, _, _)
\* [helper(c, needed) for c in node.children], the heap threaded left to right
RECURSIVE projection_children(_, _, _, _)
projection_children(h, ids, i, needed) ==
  IF i > Len(ids) THEN [h |-> h, r |-> <<>>]
  ELSE LET a == projection_helper(h, ids[i], needed)
           b == projection_children(a.h, ids, i + 1, needed)
       IN [h |-> b.h, r |-> <<a.r>> \o b.r]
projection_helper(h, id, needed) ==
  LET node == h[id]
      only == node.children[1]
  IN CASE node.op = "Scan" ->
            IF Star \in needed \/ needed = {} THEN [h |-> h, r |-> id]
            ELSE LET attrs == {a \in needed : SplitHead(a) = node.props.alias}
                 IN IF attrs # {}
                    THEN Alloc(h, Node("Project", <<id>>, [attrs |-> sorted(attrs)]))
                    ELSE [h |-> h, r |-> id]
       [] node.op \in {"Select", "Having"} ->
            LET c == projection_helper(h, only, needed \cup Range(node.props.pred_attrs))
            IN [h |-> [c.h EXCEPT ![id].children[1] = c.r], r |-> id]
       [] node.op \in {"Join", "Cross"} ->
            LET left == node.children[1]
                right == node.children[2]
                keys == Range(node.props.join_keys_left)
                          \cup Range(node.props.join_keys_right)
                left_needed == OnSide(needed, aliases(h, left))
                                 \cup OnSide(keys, aliases(h, left))
                right_needed == OnSide(needed, aliases(h, right))
                                  \cup OnSide(keys, aliases(h, right))
                l == projection_helper(h, left, left_needed)
                r == projection_helper(l.h, right, right_needed)
            IN [h |-> [r.h EXCEPT ![id].children = <<l.r, r.r>>], r |-> id]
       [] node.op = "Group" ->
            LET child_needed == Range(node.props.group_by) \cup AggAttrs(node.props.aggs)
                c == projection_helper(h, only, child_needed)
            IN [h |-> [c.h EXCEPT ![id].children[1] = c.r], r |-> id]
       [] node.op = "Project" ->
            LET own == Range(node.props.attrs)
                attrs == IF Star \in own \/ own = {} THEN needed ELSE own
                c == projection_helper(h, only, attrs)
            IN [h |-> [c.h EXCEPT ![id].children[1] = c.r], r |-> id]
       [] node.op = "Order" ->
            LET c == projection_helper(h, only, needed \cup Range(node.props.order_by))
            IN [h |-> [c.h EXCEPT ![id].children[1] = c.r], r |-> id]
       [] OTHER ->
            LET m == projection_children(h, node.children, 1, needed)
            IN [h |-> [m.h EXCEPT ![id].children = m.r], r |-> id]

projection_pushdown(h, n) ==
  LET needs == IF h[n].op = "Project" THEN Range(h[n].props.attrs)
               ELSE IF h[n].op = "Order" THEN Range(h[n].props.order_by)
               ELSE {}
  IN projection_helper(h, n, needs)

\* the factors of a Join/Cross chain, left to right
RECURSIVE collect_factors(_, _)
collect_factors(h, id) ==
  IF h[id].op \in {"Join", "Cross"}
  THEN collect_factors(h, h[id].children[1]) \o collect_factors(h, h[id].children[2])
  ELSE <<id>>

RECURSIVE count_selections(_, _)
RECURSIVE CountAll(_, _, _)
CountAll(h, ids, i) ==
  IF i > Len(ids) THEN 0 ELSE count_selections(h, ids[i]) + CountAll(h, ids, i + 1)
count_selections(h, id) ==
  IF h[id].op = "Select" THEN 1 + count_selections(h, h[id].children[1])
  ELSE CountAll(h, h[id].children, 1)

\* a faulty variant of SortFactors: ascending sort, then reversed (ties come out reversed)
RECURSIVE SortFactorsReversed(_, _)
SortFactorsReversed(h, factors) ==
  IF factors = <<>> THEN <<>>
  ELSE LET rest == SortFactorsReversed(h, SubSeq(factors, 1, Len(factors) - 1))
           f == factors[Len(factors)]
           k == count_selections(h, f)
           before == SelectSeq(rest, LAMBDA g : count_selections(h, g) > k)
           after == SelectSeq(rest, LAMBDA g : count_selections(h, g) <= k)
       IN before \o <<f>> \o after

\* factors.sort(key=count_selections, reverse=True): stable, by score descending
RECURSIVE SortFactors(_, _)
SortFactors(h, factors) ==
  IF factors = <<>> THEN <<>>
  ELSE LET rest == SortFactors(h, SubSeq(factors, 1, Len(factors) - 1))
           f == factors[Len(factors)]
           k == count_selections(h, f)
           before == SelectSeq(rest, LAMBDA g : count_selections(h, g) >= k)
           after == SelectSeq(rest, LAMBDA g : count_selections(h, g) < k)
       IN before \o <<f>> \o after

RECURSIVE RebuildFrom(_, _, _, _)
RebuildFrom(h, factors, i, cur) ==
  IF i > Len(factors) THEN [h |-> h, r |-> cur]
  ELSE LET j == Alloc(h, Node("Join", <<cur, factors[i]>>,
                              [on |-> None, join_keys_left |-> <<>>,
                               join_keys_right |-> <<>>]))
       IN RebuildFrom(j.h, factors, i + 1, j.r)
rebuild_chain(h, factors) == RebuildFrom(h, factors, 2, factors[1])

RECURSIVE reorder_helper(_, _)
\* [helper(c) for c in node.children], the heap threaded left to right
RECURSIVE reorder_children(_, _, _)
reorder_children(h, ids, i) ==
  IF i > Len(ids) THEN [h |-> h, r |-> <<>>]
  ELSE LET a == reorder_helper(h, ids[i])
           b == reorder_children(a.h, ids, i + 1)
       IN [h |-> b.h, r |-> <<a.r>> \o b.r]
reorder_helper(h, id) ==
  IF h[id].op \in {"Join", "Cross"}
  THEN LET m == reorder_children(h, collect_factors(h, id), 1)
       IN rebuild_chain(m.h, SortFactors(m.h, m.r))
  ELSE LET m == reorder_children(h, h[id].children, 1)
       IN [h |-> [m.h EXCEPT ![id].children = m.r], r |-> id]

reorder_joins(h, n) == reorder_helper(h, n)

\* re.IGNORECASE on the aggregate names
Upper(s) ==
  CASE s = "sum" -> "SUM" [] s = "count" -> "COUNT" [] s = "avg" -> "AVG"
    [] s = "min" -> "MIN" [] s = "max" -> "MAX" [] OTHER -> s

AggregateNames == {"SUM", "COUNT", "AVG", "MIN", "MAX"}

\* a faulty variant of HasAggregateCall: re.match, which looks at the start of pred only
HasAggregateCallAtStart(pred) ==
  /\ Len(pred) >= 2
  /\ pred[1].k \in {"id", "kw", "col"}
  /\ Upper(pred[1].n) \in AggregateNames
  /\ pred[2] = Sym("(")

\* re.search(r"\b(SUM|COUNT|AVG|MIN|MAX)\s*\(", pred, re.IGNORECASE)
HasAggregateCall(pred) ==
  \E i \in 1..(Len(pred) - 1) :
    /\ pred[i].k \in {"id", "kw", "col"}
    /\ Upper(pred[i].n) \in AggregateNames
    /\ pred[i + 1] = Sym("(")

RECURSIVE having_helper(_, _)
\* [helper(c) for c in node.children], the heap threaded left to right
RECURSIVE having_children(_, _, _)
having_children(h, ids, i) ==
  IF i > Len(ids) THEN [h |-> h, r |-> <<>>]
  ELSE LET a == having_helper(h, ids[i])
           b == having_children(a.h, ids, i + 1)
       IN [h |-> b.h, r |-> <<a.r>> \o b.r]
having_helper(h, id) ==
  IF h[id].op = "Having"
  THEN LET c == having_helper(h, h[id].children[1])
       IN IF HasAggregateCall(h[id].props.pred)
          THEN [h |-> [c.h EXCEPT ![id].children[1] = c.r], r |-> id]
          ELSE LET g == c.r
                   sel == Alloc(c.h, Node("Select", <<c.h[g].children[1]>>, h[id].props))
               IN [h |-> [sel.h EXCEPT ![g].children[1] = sel.r], r |-> g]
  ELSE LET m == having_children(h, h[id].children, 1)
       IN [h |-> [m.h EXCEPT ![id].children = m.r], r |-> id]

having_to_where(h, n) == having_helper(h, n)

\* a faulty variant of Seen: the set of seen predicates is not carried on
SeenForgotten(seen, pred) == {pred}

\* seen.add(pred)
Seen(seen, pred) == seen \cup {pred}

\* helper(node, seen): seen is one set, shared by the whole traversal
RECURSIVE dedup_helper(_, _, _)
RECURSIVE DedupChildren(_, _, _, _)
DedupChildren(h, ids, i, seen) ==
  IF i > Len(ids) THEN [h |-> h, r |-> <<>>, seen |-> seen]
  ELSE LET a == dedup_helper(h, ids[i], seen)
           b == DedupChildren(a.h, ids, i + 1, a.seen)
       IN [h |-> b.h, r |-> <<a.r>> \o b.r, seen |-> b.seen]
dedup_helper(h, id, seen) ==
  IF h[id].op = "Select"
  THEN LET pred == h[id].props.pred
       IN IF pred \in seen THEN dedup_helper(h, h[id].children[1], seen)
          ELSE LET c == dedup_helper(h, h[id].children[1], Seen(seen, pred))
               IN [h |-> [c.h EXCEPT ![id].children[1] = c.r], r |-> id, seen |-> c.seen]
  ELSE LET m == DedupChildren(h, h[id].children, 1, seen)
       IN [h |-> [m.h EXCEPT ![id].children = m.r], r |-> id, seen |-> m.seen]

dedup_selections(h, n) ==
  LET d == dedup_helper(h, n, {}) IN [h |-> d.h, r |-> d.r]

\* ------------------------------------------------------------------ the queries of the model
Aliases == <<"a", "b", "c", "d", "e">>
Relations == <<"A", "B", "C", "D", "E">>
Tables(n) == [i \in 1..n |-> [relation |-> Relations[i], alias |-> Aliases[i]]]

\* a.x > 5 | z > 0 | a.x > z | b.y < 100 | a.x = b.y
WherePool(n) ==
  {<<Col("a", "x"), Sym(">"), Lit("5")>>,
   <<Col("", "z"), Sym(">"), Lit("0")>>,
   <<Col("a", "x"), Sym(">"), Col("", "z")>>}
  \cup (IF n >= 2
        THEN {<<Col("b", "y"), Sym("<"), Lit("100")>>,
              <<Col("a", "x"), Sym("="), Col("b", "y")>>}
        ELSE {})

\* the ON clause of the join that adds table i + 1 (<<>>: the join has none):
\* a.id = b.aid | b.aid = a.id | a.id = b.aid AND a.x > 5, later joins t.id = u.aid
OnPool(i) ==
  IF i = 1
  THEN {<<>>,
        <<Col("a", "id"), Sym("="), Col("b", "aid")>>,
        <<Col("b", "aid"), Sym("="), Col("a", "id")>>,
        <<Col("a", "id"), Sym("="), Col("b", "aid"), Kw("AND"),
          Col("a", "x"), Sym(">"), Lit("5")>>}
  ELSE {<<>>, <<Col(Aliases[i], "id"), Sym("="), Col(Aliases[i + 1], "aid")>>}

SeqsUpTo(S, n) == UNION {[1..m -> S] : m \in 0..n}

\* the ON texts of a FROM clause of n tables, in join order
OnChoices(n) ==
  {SelectSeq(f, LAMBDA t : t # <<>>) :
     f \in {g \in [1..(n - 1) -> UNION {OnPool(i) : i \in 1..(n - 1)}] :
              \A i \in 1..(n - 1) : g[i] \in OnPool(i)}}

SumAY == [alias |-> "SUM(a.y)",
          expr |-> <<Ident("SUM"), Sym("("), Col("a", "y"), Sym(")")>>]

QueryHead(select_attrs, aggs, group_by, hv, order_cols) ==
  [select_attrs |-> select_attrs, aggs |-> aggs, group_by |-> group_by,
   having |-> hv, order_cols |-> order_cols]

\* SELECT ... [GROUP BY ...] [HAVING ...] [ORDER BY ...]
Heads ==
  {QueryHead(<<Star>>, <<>>, <<>>, None, <<>>),
   QueryHead(<<Col("a", "x")>>, <<>>, <<>>, None, <<>>),
   QueryHead(<<Col("a", "x")>>, <<>>, <<>>, None, <<Col("a", "y")>>),
   QueryHead(<<Col("", "z"), Col("a", "x")>>, <<>>, <<>>, None, <<>>),
   QueryHead(<<Col("a", "x")>>, <<SumAY>>, <<Col("a", "x")>>, None, <<>>),
   QueryHead(<<Col("a", "x")>>, <<SumAY>>, <<Col("a", "x")>>,
        <<Ident("COUNT"), Sym("("), Star, Sym(")"), Sym(">"), Lit("1")>>, <<>>),
   QueryHead(<<Col("a", "x")>>, <<SumAY>>, <<Col("a", "x")>>,
        <<Col("a", "x"), Sym(">"), Lit("5")>>, <<>>),
   QueryHead(<<Col("a", "x")>>, <<SumAY>>, <<Col("a", "x")>>,
        <<Col("a", "x"), Sym("<"), Ident("MAX"), Sym("("), Col("a", "y"), Sym(")")>>,
        <<>>)}

Queries ==
  UNION {{[tables |-> Tables(n), ons |-> ons, where |-> w,
           select_attrs |-> hd.select_attrs, aggs |-> hd.aggs,
           group_by |-> hd.group_by, having |-> hd.having,
           order_cols |-> hd.order_cols] :
            ons \in OnChoices(n), w \in SeqsUpTo(WherePool(n), MaxWhere), hd \in Heads} :
         n \in 1..MaxTables}

\* ------------------------------------------------------------------ optimize_pipeline, main.run
\* steps: the trace list of main.run, each entry (name, tree) holding a node reference.
\* asBuilt (history): the tree of each entry as it stood when the entry was appended.
\* shown: what main.run prints for each entry, after optimize_pipeline has returned.
Init ==
  /\ \E q \in Queries :
       LET t == parse_sql_to_tree(q) IN heap = t.h /\ root = t.r
  /\ steps = <<>>
  /\ asBuilt = <<>>
  /\ shown = <<>>
  /\ pc = 0

Record(name, h, n) ==
  /\ steps' = Append(steps, [name |-> name, tree |-> n])
  /\ asBuilt' = Append(asBuilt, Tree(h, n))

\* trace.append(("Step 0 - Canonical", root))
Canonical ==
  /\ pc = 0
  /\ Record("Step 0 - Canonical", heap, root)
  /\ pc' = 1
  /\ UNCHANGED <<heap, root, shown>>

\* step(name, f, n): out = f(n); trace.append((name, out)); return out
Step(at, name, out) ==
  /\ pc = at
  /\ heap' = out.h
  /\ root' = out.r
  /\ Record(name, out.h, out.r)
  /\ pc' = at + 1
  /\ UNCHANGED shown

BreakUpConjuncts == Step(1, "Step 1 - BreakUpConjuncts", breakup_conjuncts(heap, root))
SelectionPushdown == Step(2, "Step 2 - SelectionPushdown", selection_pushdown(heap, root))
JoinizeSelections == Step(3, "Step 3 - JoinizeSelections", joinize(heap, root))
ProjectionPushdown == Step(4, "Step 4 - ProjectionPushdown", projection_pushdown(heap, root))
ReorderJoins == Step(5, "Step 5 - ReorderJoins", reorder_joins(heap, root))
HavingToWhere == Step(6, "Step 6 - HavingToWhere", having_to_where(heap, root))
DedupSelections == Step(7, "Step 7 - DedupSelections", dedup_selections(heap, root))

\* trace.append(("Step 8 - Final", root)); return root
Final ==
  /\ pc = 8
  /\ Record("Step 8 - Final", heap, root)
  /\ pc' = 9
  /\ UNCHANGED <<heap, root, shown>>

\* main.run: for name, tree in steps: print(name); print(tree.render())
Run ==
  /\ pc = 9
  /\ shown' = [i \in 1..Len(steps) |-> [name |-> steps[i].name,
                                        tree |-> render(heap, steps[i].tree)]]
  /\ pc' = 10
  /\ UNCHANGED <<heap, root, steps, asBuilt>>

Next ==
  \/ Canonical
  \/ BreakUpConjuncts
  \/ SelectionPushdown
  \/ JoinizeSelections
  \/ ProjectionPushdown
  \/ ReorderJoins
  \/ HavingToWhere
  \/ DedupSelections
  \/ Final
  \/ Run

Spec == Init /\ [][Next]_vars

\* ------------------------------------------------------------------ a pass called on its own
\* Here pc counts the calls made; steps and asBuilt record the input and each result.
\* Trees built with the constructors of logical_tree.py: a Join or Cross chain of any
\* nesting shape over the scans a, b, ..., with Selects above its leaves and joins.
sigma(pred, attrs) == Node("Select", <<>>, [pred |-> pred, pred_attrs |-> attrs])

PredP == <<Col("a", "x"), Sym(">"), Lit("5")>>
PredQ == <<Col("", "z"), Sym(">"), Lit("0")>>
LeafSelects == {<<>>, <<PredP>>, <<PredQ, PredP>>}
JoinSelects == {<<>>, <<PredP>>}

VNode(node, children) == [op |-> node.op, props |-> node.props, children |-> children]

RECURSIVE VWrap(_, _)
VWrap(preds, t) ==
  IF preds = <<>> THEN t
  ELSE VNode(sigma(preds[1], col_attrs(preds[1])), <<VWrap(Tail(preds), t)>>)

RECURSIVE Chains(_, _, _)
Chains(kind, k, lo) ==
  IF k = 1
  THEN {VWrap(w, VNode(leaf_scan(Relations[lo], Aliases[lo]), <<>>)) : w \in LeafSelects}
  ELSE UNION {{VWrap(w, VNode(join(kind, None, 0, 0), <<l, r>>)) :
                 w \in JoinSelects, l \in Chains(kind, m, lo),
                 r \in Chains(kind, k - m, lo + m)} :
              m \in 1..(k - 1)}

Trees == UNION {Chains(kind, k, 1) : kind \in {"Join", "Cross"}, k \in 1..MaxFactors}

\* the nodes of a tree value as cells of the heap, children first
RECURSIVE Build(_, _)
RECURSIVE BuildAll(_, _, _)
BuildAll(h, ts, i) ==
  IF i > Len(ts) THEN [h |-> h, r |-> <<>>]
  ELSE LET a == Build(h, ts[i])
           b == BuildAll(a.h, ts, i + 1)
       IN [h |-> b.h, r |-> <<a.r>> \o b.r]
Build(h, t) ==
  LET c == BuildAll(h, t.children, 1)
  IN Alloc(c.h, Node(t.op, c.r, t.props))

InitPass ==
  /\ \E t \in Trees : LET b == Build(<<>>, t) IN heap = b.h /\ root = b.r
  /\ steps = <<[name |-> "input", tree |-> root]>>
  /\ asBuilt = <<Tree(heap, root)>>
  /\ shown = <<>>
  /\ pc = 0

\* root = reorder_joins(root)
CallReorderJoins ==
  \E at \in 0..(MaxCalls - 1) :
    Step(at, "ReorderJoins", reorder_joins(heap, root))

\* root = dedup_selections(root)
CallDedupSelections ==
  \E at \in 0..(MaxCalls - 1) :
    Step(at, "DedupSelections", dedup_selections(heap, root))

NextPass ==
  \/ CallReorderJoins
  \/ CallDedupSelections

SpecPass == InitPass /\ [][NextPass]_vars

\* ------------------------------------------------------------------ the first pass on its own
\* The start of optimize_pipeline (Canonical, then BreakUpConjuncts) over queries whose
\* ON clauses are conjunctions and whose WHERE clause may hold a BETWEEN.
MaxJoined == 3

\* a.x BETWEEN 1 AND 5
BetweenPred == <<Col("a", "x"), Kw("BETWEEN"), Lit("1"), Kw("AND"), Lit("5")>>

\* the ON clause of the join that adds table i + 1 (<<>>: the join has none):
\* t.id = u.tid | t.id = u.tid AND u.w > 1
ConjunctiveOnPool(i) ==
  LET eq == <<Col(Aliases[i], "id"), Sym("="), Col(Aliases[i + 1], "tid")>>
  IN {<<>>, eq, eq \o <<Kw("AND"), Col(Aliases[i + 1], "w"), Sym(">"), Lit("1")>>}

ConjunctiveOnChoices(n) ==
  {SelectSeq(f, LAMBDA t : t # <<>>) :
     f \in {g \in [1..(n - 1) -> UNION {ConjunctiveOnPool(i) : i \in 1..(n - 1)}] :
              \A i \in 1..(n - 1) : g[i] \in ConjunctiveOnPool(i)}}

\* SELECT a.x FROM A a [JOIN B b [ON ...] ...] [WHERE a.x > 5 | WHERE a.x BETWEEN 1 AND 5]
ConjunctiveQueries ==
  UNION {{[tables |-> Tables(n), ons |-> ons, where |-> w,
           select_attrs |-> <<Col("a", "x")>>, aggs |-> <<>>, group_by |-> <<>>,
           having |-> None, order_cols |-> <<>>] :
            ons \in ConjunctiveOnChoices(n), w \in SeqsUpTo({PredP, BetweenPred}, 1)} :
         n \in 1..MaxJoined}

InitBreakUp ==
  /\ \E q \in ConjunctiveQueries :
       LET t == parse_sql_to_tree(q) IN heap = t.h /\ root = t.r
  /\ steps = <<>>
  /\ asBuilt = <<>>
  /\ shown = <<>>
  /\ pc = 0

NextBreakUp ==
  \/ Canonical
  \/ BreakUpConjuncts

SpecBreakUp == InitBreakUp /\ [][NextBreakUp]_vars

\* ------------------------------------------------------------------ the claims
\* the subtrees of a tree value
RECURSIVE SubTrees(_)
SubTrees(t) == {t} \cup UNION {SubTrees(t.children[i]) : i \in 1..Len(t.children)}

\* the (on, join keys) of the Join nodes of a tree value that carry a condition
JoinConditions(t) == {n.props : n \in {m \in SubTrees(t) : m.op = "Join" /\ m.props.on # None}}

\* C1: every join condition Joinize established (the Join nodes of the tree after
\* JoinizeSelections, with their on-predicate and left/right keys) is still carried by
\* a Join node of the final tree that optimize_pipeline returns.
C1_JoinConditionKept ==
  pc >= 9 => JoinConditions(asBuilt[4]) \subseteq JoinConditions(Tree(heap, root))

\* d lies strictly below a
Below(h, a, d) == d \in Nodes(h, a) \ {a}
IsJoin(h, n) == h[n].op \in {"Join", "Cross"}
Selects(h, r) == {n \in Nodes(h, r) : h[n].op = "Select"}
Joins(h, r) == {n \in Nodes(h, r) : IsJoin(h, n)}
Scans(h, r) == {n \in Nodes(h, r) : h[n].op = "Scan"}
Qualifiers(attrs) == {a.q : a \in Range(attrs)}

\* the attributes a node references
Referenced(node) ==
  CASE node.op = "Project" -> Range(node.props.attrs)
    [] node.op = "Order" -> Range(node.props.order_by)
    [] node.op \in {"Select", "Having"} -> Range(node.props.pred_attrs)
    [] node.op \in {"Join", "Cross"} ->
         Range(node.props.join_keys_left) \cup Range(node.props.join_keys_right)
    [] node.op = "Group" ->
         Range(node.props.group_by)
           \cup UNION {{t \in Range(node.props.aggs[i].expr) : t.k = "col"} :
                        i \in 1..Len(node.props.aggs)}
    [] OTHER -> {}

\* the Project of the canonical form: the root, or the child of the root Order
CanonicalProject(h, r) == IF h[r].op = "Order" THEN h[r].children[1] ELSE r

\* the Projects that ProjectionPushdown put above a Scan
SyntheticProjects(h, r) ==
  {p \in Nodes(h, r) : /\ h[p].op = "Project"
                       /\ p # CanonicalProject(h, r)
                       /\ h[h[p].children[1]].op = "Scan"}

\* attribute a is a column of Scan s: qualified by its alias, or bare in a tree with
\* no other Scan
OfScan(h, r, a, s) ==
  /\ a.k = "col"
  /\ \/ a.q = h[s].props.alias
     \/ a.q = "" /\ Scans(h, r) = {s}

\* C2: after ProjectionPushdown every synthetic Project above a Scan lists every
\* attribute of that Scan that an ancestor references (Project list, Order list,
\* Select/Having predicate attributes, Join keys, Group group-by and aggregate text).
C2_NeededAttributesKept ==
  pc = 5 =>
    \A p \in SyntheticProjects(heap, root) :
      \A anc \in Nodes(heap, root) :
        Below(heap, anc, p) =>
          \A a \in Referenced(heap[anc]) :
            OfScan(heap, root, a, heap[p].children[1]) =>
              a \in Range(heap[p].props.attrs)

\* the join child (1 or 2) of j under which s lies
SideOf(h, j, s) == CHOOSE i \in 1..2 : s \in Nodes(h, h[j].children[i])

\* C3: after SelectionPushdown a Select lies below a Join/Cross only if all the
\* attributes it references are alias-qualified and their aliases all belong to the
\* alias set of exactly one child of that Join/Cross (the child it lies under).
C3_OnlyQualifiedOneSidePushed ==
  pc = 3 =>
    \A s \in Selects(heap, root) : \A j \in Joins(heap, root) :
      Below(heap, j, s) =>
        LET attrs == heap[s].props.pred_attrs
            i == SideOf(heap, j, s)
        IN /\ \A a \in Range(attrs) : HasDot(a)
           /\ Qualifiers(attrs) \subseteq aliases(heap, heap[j].children[i])
           /\ ~(Qualifiers(attrs) \subseteq aliases(heap, heap[j].children[3 - i]))

\* the attributes of Select s are all alias-qualified and belong to one child of j
SingleSide(h, s, j) ==
  LET attrs == h[s].props.pred_attrs
  IN /\ attrs # <<>>
     /\ \A a \in Range(attrs) : HasDot(a)
     /\ \E i \in 1..2 : Qualifiers(attrs) \subseteq aliases(h, h[j].children[i])

\* C4: after SelectionPushdown on a canonical tree no Select whose attributes are all
\* alias-qualified and belong to one child of a Join/Cross remains above that
\* Join/Cross, whatever lies between them.
C4_NoPushableSelectLeftAbove ==
  pc = 3 =>
    \A s \in Selects(heap, root) : \A j \in Joins(heap, root) :
      Below(heap, s, j) => ~SingleSide(heap, s, j)

\* pred is a bare equality between two alias-qualified attributes
BareEquality(pred) ==
  Len(pred) = 3 /\ pred[2] = Sym("=") /\ HasDot(pred[1]) /\ HasDot(pred[3])

\* C5: Joinize replaces a Select directly atop Cross(L, R) by a Join(L, R) if and only
\* if its predicate is a bare equality with one attribute of L's aliases and one of
\* R's (in either order); the Join carries the predicate, its left key is the
\* attribute of L's side and its right key the attribute of R's side.
C5_JoinizeIffOneAttributePerSide ==
  [][pc = 3 =>
       \A s \in Selects(heap, root) :
         heap[heap[s].children[1]].op = "Cross" =>
           LET c == heap[s].children[1]
               pred == heap[s].props.pred
               la == aliases(heap, heap[c].children[1])
               ra == aliases(heap, heap[c].children[2])
               lr == BareEquality(pred) /\ pred[1].q \in la /\ pred[3].q \in ra
               rl == BareEquality(pred) /\ pred[1].q \in ra /\ pred[3].q \in la
               converted == s \notin Nodes(heap', root')
           IN /\ converted <=> (lr \/ rl)
              /\ converted =>
                   \E j \in Nodes(heap', root') :
                     /\ heap'[j].op = "Join"
                     /\ heap'[j].children = heap'[c].children
                     /\ heap'[j].props.on = pred
                     /\ heap'[j].props.join_keys_left[1].q \in la
                     /\ heap'[j].props.join_keys_right[1].q \in ra]_vars

\* the canonical shape: at most one Order, at the root; one Project, at the root or
\* directly below the root Order; below it an optional Having/Group pair; below that
\* only Select, Join, Cross and Scan
CanonicalShape(h, r) ==
  LET prj == CanonicalProject(h, r)
      b == h[prj].children[1]
      g == IF h[b].op = "Having" THEN h[b].children[1] ELSE b
      body == IF h[g].op = "Group" THEN h[g].children[1] ELSE g
  IN /\ h[prj].op = "Project"
     /\ \A n \in Nodes(h, r) : h[n].op = "Order" => n = r
     /\ \A n \in Nodes(h, r) : h[n].op = "Project" => n = prj
     /\ h[b].op = "Having" => h[g].op = "Group"
     /\ \A n \in Nodes(h, body) : h[n].op \in {"Select", "Join", "Cross", "Scan"}

\* C6: the tree has the canonical shape after every pass, and so when
\* optimize_pipeline returns it.
C6_CanonicalShapeKept == pc <= 9 => CanonicalShape(heap, root)

TraceNames ==
  <<"Step 0 - Canonical", "Step 1 - BreakUpConjuncts", "Step 2 - SelectionPushdown",
    "Step 3 - JoinizeSelections", "Step 4 - ProjectionPushdown", "Step 5 - ReorderJoins",
    "Step 6 - HavingToWhere", "Step 7 - DedupSelections", "Step 8 - Final">>

\* C7: what main.run shows after the run is the nine entries in order, each with the
\* tree as it stood when the entry was recorded.
C7_TraceShowsEachStep ==
  pc = 10 =>
    /\ Len(shown) = Len(TraceNames)
    /\ \A i \in 1..Len(shown) :
         shown[i].name = TraceNames[i] /\ shown[i].tree = asBuilt[i]

\* pred holds a call to one of the aggregate functions
CallsAggregate(pred) ==
  \E i \in 1..(Len(pred) - 1) :
    /\ pred[i] \in {Ident(f) : f \in {"SUM", "COUNT", "AVG", "MIN", "MAX"}}
    /\ pred[i + 1] = Sym("(")

\* the children of par, with hv replaced by g
Replaced(children, hv, g) ==
  [i \in 1..Len(children) |-> IF children[i] = hv THEN g ELSE children[i]]

\* C8: HavingToWhere, on a Having directly atop a Group: when the predicate holds no
\* aggregate call, the Having leaves the tree, the Group takes its place, and a Select
\* with the Having's predicate stands between the Group and the Group's former child;
\* when it holds one, the Having, its predicate and its Group child are unchanged.
C8_HavingMovedIffNoAggregate ==
  [][pc = 6 =>
       \A hv \in Nodes(heap, root) :
         (heap[hv].op = "Having" /\ heap[heap[hv].children[1]].op = "Group") =>
           LET g == heap[hv].children[1]
               former == heap[g].children[1]
               sel == heap'[g].children[1]
           IN IF CallsAggregate(heap[hv].props.pred)
              THEN /\ hv \in Nodes(heap', root')
                   /\ Tree(heap', hv) = Tree(heap, hv)
              ELSE /\ hv \notin Nodes(heap', root')
                   /\ \A par \in Nodes(heap, root) :
                        hv \in Range(heap[par].children) =>
                          /\ par \in Nodes(heap', root')
                          /\ heap'[par].children = Replaced(heap[par].children, hv, g)
                   /\ heap'[g].op = "Group" /\ heap'[g].props = heap[g].props
                   /\ heap'[sel].op = "Select"
                   /\ heap'[sel].props.pred = heap[hv].props.pred
                   /\ heap'[sel].children = <<former>>
                   /\ Tree(heap', former) = Tree(heap, former)]_vars

HasOp(t, op) == \E n \in SubTrees(t) : n.op = op

\* C8's case: HavingToWhere has run on a tree with a Having and left none; the Group
\* now stands on a Select
C8_Witness ==
  /\ pc = 7
  /\ HasOp(asBuilt[6], "Having")
  /\ ~HasOp(asBuilt[7], "Having")
  /\ \E n \in SubTrees(asBuilt[7]) : n.op = "Group" /\ n.children[1].op = "Select"

\* the factors of a chain, left to right
RECURSIVE Factors(_, _)
Factors(h, n) ==
  IF IsJoin(h, n) THEN Factors(h, h[n].children[1]) \o Factors(h, h[n].children[2])
  ELSE <<n>>

\* the factors of a left-deep chain: down the left spine, then each right child
RECURSIVE LeftSpine(_, _)
LeftSpine(h, n) ==
  IF IsJoin(h, n) THEN Append(LeftSpine(h, h[n].children[1]), h[n].children[2])
  ELSE <<n>>

LeftDeep(h, n) == \A i \in 1..Len(LeftSpine(h, n)) : ~IsJoin(h, LeftSpine(h, n)[i])

\* the selection score of a factor: the Selects in it
Score(h, f) == Cardinality(Selects(h, f))

\* the join nodes that head a chain: the root, or a child of a node that is no join
ChainHeads(h, r) ==
  {n \in Joins(h, r) :
     n = r \/ \E p \in Nodes(h, r) : ~IsJoin(h, p) /\ n \in Range(h[p].children)}

\* the node that stands, in the tree (h2, r2), where n stood in (h, r)
InPlaceOf(h, r, h2, r2, n) ==
  IF n = r THEN r2
  ELSE LET p == CHOOSE m \in Nodes(h, r) : n \in Range(h[m].children)
           i == CHOOSE k \in 1..Len(h[p].children) : h[p].children[k] = n
       IN h2[p].children[i]

Position(s, e) == CHOOSE i \in 1..Len(s) : s[i] = e

LastCall(name) == pc' = pc + 1 /\ steps'[Len(steps')].name = name

\* C9: ReorderJoins turns every Join/Cross chain, whatever its nesting, into a
\* left-deep chain of the same factors; factors of equal score keep their order, so a
\* chain whose factors all score the same keeps its left-to-right order.
C9_ReorderStable ==
  [][LastCall("ReorderJoins") =>
       \A c \in ChainHeads(heap, root) :
         LET fs == Factors(heap, c)
             out == InPlaceOf(heap, root, heap', root', c)
             gs == LeftSpine(heap', out)
         IN /\ LeftDeep(heap', out)
            /\ Len(gs) = Len(fs) /\ Range(gs) = Range(fs)
            /\ (\A i, j \in 1..Len(fs) : Score(heap, fs[i]) = Score(heap, fs[j]))
                 => gs = fs
            /\ \A i, j \in 1..Len(fs) :
                 (i < j /\ Score(heap, fs[i]) = Score(heap, fs[j]))
                   => Position(gs, fs[i]) < Position(gs, fs[j])]_vars

RECURSIVE VFactors(_)
VFactors(t) ==
  IF t.op \in {"Join", "Cross"} THEN VFactors(t.children[1]) \o VFactors(t.children[2])
  ELSE <<t>>
VScore(t) == Cardinality({n \in SubTrees(t) : n.op = "Select"})

\* C9's case: ReorderJoins was called on a chain that is not left-deep, of three or
\* more factors of one score, each with a Select, and returned them in their order
C9_Witness ==
  /\ pc >= 1
  /\ steps[2].name = "ReorderJoins"
  /\ asBuilt[1].op \in {"Join", "Cross"}
  /\ asBuilt[1].children[2].op \in {"Join", "Cross"}
  /\ Len(VFactors(asBuilt[1])) >= 3
  /\ \A i \in 1..Len(VFactors(asBuilt[1])) :
       VScore(VFactors(asBuilt[1])[i]) = 1
  /\ asBuilt[2] # asBuilt[1]
  /\ VFactors(asBuilt[2]) = VFactors(asBuilt[1])

\* the Selects of the tree that are the first, in preorder, to carry their predicate
FirstOccurrences(h, r) ==
  LET pre == Preorder(h, r)
  IN {pre[i] : i \in {k \in 1..Len(pre) :
                        /\ h[pre[k]].op = "Select"
                        /\ \A m \in 1..(k - 1) :
                             h[pre[m]].op = "Select" =>
                               h[pre[m]].props.pred # h[pre[k]].props.pred}}

\* C10: DedupSelections keeps exactly the Selects that are first in preorder to carry
\* their predicate text, so no two Selects of its result carry the same text, and a
\* second run in a row returns the tree of the first.
C10_DedupIdempotent ==
  [][LastCall("DedupSelections") =>
       /\ Selects(heap', root') = FirstOccurrences(heap, root)
       /\ \A s, t \in Selects(heap', root') :
            s # t => heap'[s].props.pred # heap'[t].props.pred
       /\ steps[Len(steps)].name = "DedupSelections"
            => Tree(heap', root') = Tree(heap, root)]_vars

\* C10's case: DedupSelections ran twice in a row on a tree with the same predicate on
\* both sides of a join, and the first run removed a Select
C10_Witness ==
  /\ pc = 2
  /\ steps[2].name = "DedupSelections"
  /\ steps[3].name = "DedupSelections"
  /\ asBuilt[2] # asBuilt[1]
  /\ \E n \in SubTrees(asBuilt[1]) :
       /\ n.op \in {"Join", "Cross"}
       /\ \E s \in SubTrees(n.children[1]), t \in SubTrees(n.children[2]) :
            s.op = "Select" /\ t.op = "Select" /\ s.props.pred = t.props.pred

\* C11 ---------------------------------------------------------------------------------
\* an AND keyword that joins two conditions (the AND of BETWEEN ... AND ... joins none)
JoiningAnd(pred, i) ==
  /\ 1 < i /\ i < Len(pred)
  /\ pred[i] = Kw("AND")
  /\ ~(i > 2 /\ pred[i - 2] = Kw("BETWEEN"))

\* the predicate is a top-level conjunction
IsConjunction(pred) == \E i \in 1..Len(pred) : JoiningAnd(pred, i)

\* the conjuncts of a predicate, in the order of its text
RECURSIVE Conjuncts(_)
Conjuncts(pred) ==
  IF ~IsConjunction(pred) THEN <<pred>>
  ELSE LET i == CHOOSE j \in 1..Len(pred) :
                  JoiningAnd(pred, j) /\ \A m \in 1..(j - 1) : ~JoiningAnd(pred, m)
       IN <<SubSeq(pred, 1, i - 1)>> \o Conjuncts(SubSeq(pred, i + 1, Len(pred)))

\* the props of the Select nodes of a tree value, top down and left to right
\* (a node has at most two children)
RECURSIVE SelectsIn(_)
SelectsIn(t) ==
  LET below == IF Len(t.children) = 0 THEN <<>>
               ELSE IF Len(t.children) = 1 THEN SelectsIn(t.children[1])
               ELSE SelectsIn(t.children[1]) \o SelectsIn(t.children[2])
  IN IF t.op = "Select" THEN <<t.props>> \o below ELSE below

\* the predicates of the chains that replace the Selects sels: one Select per conjunct
RECURSIVE ConjunctsOfAll(_)
ConjunctsOfAll(sels) ==
  IF sels = <<>> THEN <<>>
  ELSE Conjuncts(sels[1].pred) \o ConjunctsOfAll(Tail(sels))

\* C11: after BreakUpConjuncts no Select of the tree holds a top-level conjunction; the
\* Selects of the tree are, in order, one per conjunct of each Select of the tree the pass
\* was given (a conjunctive Select below another conjunctive Select included); and a
\* Select whose predicate is not a top-level conjunction is still there, unchanged.
C11_EveryConjunctiveSelectSplit ==
  (Len(steps) >= 2 /\ steps[2].name = "Step 1 - BreakUpConjuncts") =>
    LET before == SelectsIn(asBuilt[1])
        after == SelectsIn(asBuilt[2])
    IN /\ \A i \in DOMAIN after : ~IsConjunction(after[i].pred)
       /\ [i \in DOMAIN after |-> after[i].pred] = ConjunctsOfAll(before)
       /\ \A i \in DOMAIN before :
            ~IsConjunction(before[i].pred) => before[i] \in Range(after)

\* C12 ---------------------------------------------------------------------------------
\* the Project list of the query is empty or holds the wildcard marker
SelectsEverything(h, r) ==
  LET attrs == h[CanonicalProject(h, r)].props.attrs
  IN attrs = <<>> \/ Star \in Range(attrs)

\* C12: when the tree's Project list is empty or holds the wildcard marker, the tree after
\* ProjectionPushdown has no synthetic Project above any Scan, whatever lies between the
\* Project and the Scans and whether or not the Project is under an Order.
C12_WildcardRestrictsNoScan ==
  (pc = 5 /\ SelectsEverything(heap, root)) => SyntheticProjects(heap, root) = {}

====
